---- MODULE Spec2Model ----
(***************************************************************************)
(* Model of the poker hand evaluation library (src/src/utils.ts and         *)
(* src/src/evaluate.ts, CardData variant).  A card is a record              *)
(* [rank, suit]; a hand is a sequence of cards in the caller's order.       *)
(* The library is a set of pure functions: they are operators here, and the *)
(* state machine is a caller that assembles an input and makes one call.    *)
(***************************************************************************)
EXTENDS Integers, Sequences, FiniteSets, TLC

VARIABLES
    cards,      \* the card list the caller is assembling / has passed
    players,    \* the player list the caller is assembling / has passed
    hands,      \* the hands the caller has picked to compare with each other
    code,       \* the card code the caller has picked, as a list of at most one
    result      \* outcome of the call made on them ([status |-> "none"] before)

vars == <<cards, players, hands, code, result>>

Card(r, s) == [rank |-> r, suit |-> s]

Range(seq) == {seq[i] : i \in DOMAIN seq}

(* ------------------------------------------------------------------ *)
(* Program constants                                                   *)
(* ------------------------------------------------------------------ *)
MIN_RANK == 2
MAX_RANK == 14
MIN_SUIT == 1
MAX_SUIT == 4
MAX_CARDS == 10
HAND_SIZE == 5

(* ------------------------------------------------------------------ *)
(* utils.ts                                                            *)
(* ------------------------------------------------------------------ *)
getActualRank(rank) == rank

isValidCard(card) ==
    LET rank == getActualRank(card.rank) IN
    /\ rank >= MIN_RANK
    /\ rank <= MAX_RANK
    /\ card.suit >= MIN_SUIT
    /\ card.suit <= MAX_SUIT

\* JavaScript's % on integers: the remainder takes the sign of the dividend
remainder(a, b) == IF a >= 0 THEN a % b ELSE -((-a) % b)

\* convertToCard throws 'Invalid card code' (Math.floor is \div)
convertToCardThrows(cardCode) ==
    LET suit == cardCode \div 1000
        rank == remainder(cardCode, 1000)
    IN  rank < 2 \/ rank > 14 \/ suit < 1 \/ suit > 4

\* the card convertToCard returns when it does not throw
convertToCard(cardCode) ==
    [rank |-> remainder(cardCode, 1000), suit |-> cardCode \div 1000]

\* convertToCardCode throws 'Invalid card'
convertToCardCodeThrows(card) == ~isValidCard(card)

\* a card code made of the rank alone
convertToCardCode_rankOnly(card) == card.rank

\* the code convertToCardCode returns when it does not throw
convertToCardCode(card) == card.suit * 1000 + card.rank

RECURSIVE sortCardsByRank(_)
\* [...cards].sort((a, b) => rankB - rankA): a copy in descending rank.
\* Array.prototype.sort is stable, so cards of equal rank keep their input
\* order: each card goes behind the earlier cards of the same or a higher
\* rank.
sortCardsByRank(cs) ==
    IF Len(cs) <= 1
    THEN cs
    ELSE LET front == sortCardsByRank(SubSeq(cs, 1, Len(cs) - 1))
             c == cs[Len(cs)]
             lower == {i \in DOMAIN front :
                          getActualRank(front[i].rank) < getActualRank(c.rank)}
             k == IF lower = {}
                  THEN Len(front) + 1
                  ELSE CHOOSE i \in lower : \A j \in lower : i <= j
         IN  SubSeq(front, 1, k - 1) \o <<c>> \o SubSeq(front, k, Len(front))

\* the argument of a sort made on the array itself, without the copy
cardsAfterSort_inPlace(cs) == sortCardsByRank(cs)

\* The array handed to sortCardsByRank as it is after the call: the spread
\* [...cards] makes a new array and sort reorders that one.
cardsAfterSort(cs) == cs

isFlush(cs) ==
    LET firstSuit == cs[1].suit IN
    \A i \in DOMAIN cs : cs[i].suit = firstSuit

\* isStraight without the special case for the wheel
isStraight_noWheel(cs) ==
    LET sortedCards == sortCardsByRank(cs) IN
    \A i \in 2..Len(sortedCards) :
        getActualRank(sortedCards[i - 1].rank) = getActualRank(sortedCards[i].rank) + 1

isStraight(cs) ==
    LET sortedCards == sortCardsByRank(cs)
        ranks == [i \in DOMAIN sortedCards |-> getActualRank(sortedCards[i].rank)]
    IN  IF ranks = <<14, 5, 4, 3, 2>>
        THEN TRUE
        ELSE \A i \in 2..Len(ranks) : ranks[i - 1] = ranks[i] + 1

suitOrder == (1 :> 4) @@ (2 :> 3) @@ (3 :> 2) @@ (4 :> 1)

\* the rank loop looking at the highest card of each hand only
FirstRankDiff_topOnly(s1, s2) ==
    IF Len(s1) > 0 /\ Len(s2) > 0
          /\ getActualRank(s1[1].rank) # getActualRank(s2[1].rank)
    THEN 1 ELSE 0

\* Index of the first position where the two rank-descending hands differ
\* in rank, within the shorter of the two; 0 when there is none.
FirstRankDiff(s1, s2) ==
    LET n == IF Len(s1) < Len(s2) THEN Len(s1) ELSE Len(s2)
        d == {i \in 1..n : getActualRank(s1[i].rank) # getActualRank(s2[i].rank)}
    IN  IF d = {} THEN 0 ELSE CHOOSE i \in d : \A j \in d : i <= j

\* compareHandValues raises a TypeError when it reads .suit of the first
\* card of an empty hand (the rank loop does not run for an empty hand).
compareHandValuesThrows(cards1, cards2) ==
    Len(cards1) = 0 \/ Len(cards2) = 0

\* compareHandValues returns NaN when the ranks tie and a suit that is
\* looked up in suitOrder is not one of its keys.
compareHandValuesIsNaN(cards1, cards2) ==
    /\ ~compareHandValuesThrows(cards1, cards2)
    /\ LET s1 == sortCardsByRank(cards1)
           s2 == sortCardsByRank(cards2)
       IN  /\ FirstRankDiff(s1, s2) = 0
           /\ s1[1].suit # s2[1].suit
           /\ (s1[1].suit \notin DOMAIN suitOrder \/ s2[1].suit \notin DOMAIN suitOrder)

\* The number compareHandValues returns (when it neither throws nor is NaN).
compareHandValues(cards1, cards2) ==
    LET sortedCards1 == sortCardsByRank(cards1)
        sortedCards2 == sortCardsByRank(cards2)
        i == FirstRankDiff(sortedCards1, sortedCards2)
    IN  IF i # 0
        THEN IF getActualRank(sortedCards1[i].rank) > getActualRank(sortedCards2[i].rank)
             THEN 1 ELSE -1
        ELSE LET suit1 == sortedCards1[1].suit
                 suit2 == sortedCards2[1].suit
             IN  IF suit1 # suit2
                 THEN suitOrder[suit1] - suitOrder[suit2]
                 ELSE 0

\* rankCounts of getRankCountsAndKickers: rank -> number of cards of it.
rankCounts(cs) ==
    [r \in {getActualRank(cs[i].rank) : i \in DOMAIN cs} |->
        Cardinality({i \in DOMAIN cs : getActualRank(cs[i].rank) = r})]

RECURSIVE combine(_, _, _, _)
RECURSIVE combineFrom(_, _, _, _)
\* combine(current, start) of getCombinations; start is 1-based here.
combine(cs, size, current, start) ==
    IF Len(current) = size
    THEN <<current>>
    ELSE combineFrom(cs, size, current, start)

\* the for loop recursing from i instead of i + 1
combineFrom_reuse(cs, size, current, i) ==
    IF i > Len(cs)
    THEN <<>>
    ELSE combine(cs, size, Append(current, cs[i]), i)
            \o combineFrom(cs, size, current, i + 1)

\* the for loop of combine, from index i on
combineFrom(cs, size, current, i) ==
    IF i > Len(cs)
    THEN <<>>
    ELSE combine(cs, size, Append(current, cs[i]), i + 1)
            \o combineFrom(cs, size, current, i + 1)

getCombinations(cs, size) == combine(cs, size, <<>>, 1)

(* ------------------------------------------------------------------ *)
(* evaluate.ts                                                         *)
(* ------------------------------------------------------------------ *)
Thrown(message) == [status |-> "error", message |-> message]

HandRankEvaluation(title, level, rankingCards) ==
    [status |-> "ok", handRankTitle |-> title, handRankLevel |-> level,
     rankingCards |-> rankingCards]

HandRankResult(title, level, bestFiveCards) ==
    [status |-> "ok", handRankTitle |-> title, handRankLevel |-> level,
     bestFiveCards |-> bestFiveCards]

\* Object.entries(rankCounts).find(([_, count]) => count === n) is defined
hasRankCount(rc, n) == \E r \in DOMAIN rc : rc[r] = n

\* the ranks that Object.entries(rankCounts).filter(count === 2) keeps
pairRanks(rc) == {r \in DOMAIN rc : rc[r] = 2}

\* the short branch naming two pairs among four cards
evaluateShortHand_twoPair(cs, sortedCards, rc) ==
    IF hasRankCount(rc, 4)
    THEN HandRankEvaluation("Four of a Kind", 3, sortedCards)
    ELSE IF hasRankCount(rc, 3)
    THEN HandRankEvaluation("Three of a Kind", 7, sortedCards)
    ELSE IF Cardinality(pairRanks(rc)) > 1
    THEN HandRankEvaluation("Two Pair", 8, sortedCards)
    ELSE IF Cardinality(pairRanks(rc)) > 0
    THEN HandRankEvaluation("One Pair", 9, sortedCards)
    ELSE HandRankEvaluation("High Card", 10, sortedCards)

\* evaluateHandRank, the branch for fewer than 5 cards
evaluateShortHand(cs, sortedCards, rc) ==
    IF hasRankCount(rc, 4)
    THEN HandRankEvaluation("Four of a Kind", 3, sortedCards)
    ELSE IF hasRankCount(rc, 3)
    THEN HandRankEvaluation("Three of a Kind", 7, sortedCards)
    ELSE IF Cardinality(pairRanks(rc)) > 0
    THEN HandRankEvaluation("One Pair", 9, sortedCards)
    ELSE HandRankEvaluation("High Card", 10, sortedCards)

\* the rule table for 5 cards without its Four of a Kind row
evaluateFullHand_noFourOfAKind(cs, sortedCards, rc) ==
    LET isFlushResult == isFlush(cs)
        isStraightResult == isStraight(cs)
        threeOfAKindRank == hasRankCount(rc, 3)
        pairRank == hasRankCount(rc, 2)
        pairs == pairRanks(rc)
    IN  IF /\ isFlushResult
           /\ isStraightResult
           /\ \E i \in DOMAIN cs : getActualRank(cs[i].rank) = 14
           /\ \E i \in DOMAIN cs : getActualRank(cs[i].rank) = 13
        THEN HandRankEvaluation("Royal Flush", 1, sortedCards)
        ELSE IF isFlushResult /\ isStraightResult
        THEN HandRankEvaluation("Straight Flush", 2, sortedCards)
        ELSE IF threeOfAKindRank /\ pairRank
        THEN HandRankEvaluation("Full House", 4, sortedCards)
        ELSE IF isFlushResult
        THEN HandRankEvaluation("Flush", 5, sortedCards)
        ELSE IF isStraightResult
        THEN HandRankEvaluation("Straight", 6, sortedCards)
        ELSE IF threeOfAKindRank
        THEN HandRankEvaluation("Three of a Kind", 7, sortedCards)
        ELSE IF Cardinality(pairs) = 2
        THEN HandRankEvaluation("Two Pair", 8, sortedCards)
        ELSE IF Cardinality(pairs) = 1
        THEN HandRankEvaluation("One Pair", 9, sortedCards)
        ELSE HandRankEvaluation("High Card", 10, sortedCards)

\* evaluateHandRank, the rule table for 5 cards
evaluateFullHand(cs, sortedCards, rc) ==
    LET isFlushResult == isFlush(cs)
        isStraightResult == isStraight(cs)
        threeOfAKindRank == hasRankCount(rc, 3)
        pairRank == hasRankCount(rc, 2)
        pairs == pairRanks(rc)
    IN  IF /\ isFlushResult
           /\ isStraightResult
           /\ \E i \in DOMAIN cs : getActualRank(cs[i].rank) = 14
           /\ \E i \in DOMAIN cs : getActualRank(cs[i].rank) = 13
        THEN HandRankEvaluation("Royal Flush", 1, sortedCards)
        ELSE IF isFlushResult /\ isStraightResult
        THEN HandRankEvaluation("Straight Flush", 2, sortedCards)
        ELSE IF hasRankCount(rc, 4)
        THEN HandRankEvaluation("Four of a Kind", 3, sortedCards)
        ELSE IF threeOfAKindRank /\ pairRank
        THEN HandRankEvaluation("Full House", 4, sortedCards)
        ELSE IF isFlushResult
        THEN HandRankEvaluation("Flush", 5, sortedCards)
        ELSE IF isStraightResult
        THEN HandRankEvaluation("Straight", 6, sortedCards)
        ELSE IF threeOfAKindRank
        THEN HandRankEvaluation("Three of a Kind", 7, sortedCards)
        ELSE IF Cardinality(pairs) = 2
        THEN HandRankEvaluation("Two Pair", 8, sortedCards)
        ELSE IF Cardinality(pairs) = 1
        THEN HandRankEvaluation("One Pair", 9, sortedCards)
        ELSE HandRankEvaluation("High Card", 10, sortedCards)

\* evaluateHandRank whose validity check turns the ace away
evaluateHandRank_noAce(cs) ==
    IF \E i \in DOMAIN cs : ~isValidCard(cs[i]) \/ getActualRank(cs[i].rank) >= MAX_RANK
    THEN Thrown("Invalid card")
    ELSE LET sortedCards == sortCardsByRank(cs)
             rc == rankCounts(cs)
         IN  IF Len(cs) < HAND_SIZE
             THEN evaluateShortHand(cs, sortedCards, rc)
             ELSE evaluateFullHand(cs, sortedCards, rc)

evaluateHandRank(cs) ==
    IF \E i \in DOMAIN cs : ~isValidCard(cs[i])
    THEN Thrown("Invalid card")
    ELSE LET sortedCards == sortCardsByRank(cs)
             rc == rankCounts(cs)
         IN  IF Len(cs) < HAND_SIZE
             THEN evaluateShortHand(cs, sortedCards, rc)
             ELSE evaluateFullHand(cs, sortedCards, rc)

\* The array handed to evaluateHandRank as it is after the call.  The
\* forEach, isFlush, getRankCountsAndKickers and the rule table only read
\* it; sortCardsByRank receives it at line 606, and again inside
\* isStraight when there are 5 cards.
cardsAfterEvaluateHandRank(cs) ==
    IF \E i \in DOMAIN cs : ~isValidCard(cs[i])
    THEN cs
    ELSE IF Len(cs) < HAND_SIZE
    THEN cardsAfterSort(cs)
    ELSE cardsAfterSort(cardsAfterSort(cs))

\* foldStep that compares levels only and never breaks a tie
foldStep_levelOnly(bestHand, combination) ==
    LET evaluation == evaluateHandRank(combination) IN
    IF evaluation.status = "error"
    THEN bestHand
    ELSE IF bestHand.status = "null"
    THEN evaluation
    ELSE IF evaluation.handRankLevel < bestHand.handRankLevel
    THEN evaluation
    ELSE bestHand

\* One iteration of the loop over the combinations in
\* getBestHandCombination: the new value of bestHand ([status |-> "null"]
\* is null).  An evaluation that throws is caught and the subset skipped.
foldStep(bestHand, combination) ==
    LET evaluation == evaluateHandRank(combination) IN
    IF evaluation.status = "error"
    THEN bestHand
    ELSE IF bestHand.status = "null"
    THEN evaluation
    ELSE IF evaluation.handRankLevel < bestHand.handRankLevel
    THEN evaluation
    ELSE IF /\ evaluation.handRankLevel = bestHand.handRankLevel
            /\ compareHandValues(evaluation.rankingCards, bestHand.rankingCards) > 0
    THEN evaluation
    ELSE bestHand

RECURSIVE foldBest(_, _, _, _)
\* The loop `for (const combination of combinations)` over the elements
\* lo..hi, in order, started with bestHand.  The range is walked as two
\* consecutive halves, which is the same left-to-right sequence of
\* iterations; the test on firstHalf is always true and only makes TLC
\* evaluate the first half before it enters the second.
foldBest(combinations, lo, hi, bestHand) ==
    IF lo > hi
    THEN bestHand
    ELSE IF lo = hi
    THEN foldStep(bestHand, combinations[lo])
    ELSE LET mid == (lo + hi) \div 2
             firstHalf == foldBest(combinations, lo, mid, bestHand)
         IN  IF firstHalf.status \in {"null", "ok"}
             THEN foldBest(combinations, mid + 1, hi, firstHalf)
             ELSE firstHalf

\* the count check off by one
tooManyCards_offByOne(cs) == Len(cs) > MAX_CARDS + 1

\* cards.length > 10
tooManyCards(cs) == Len(cs) > MAX_CARDS

\* the forEach without its duplicate check
firstBadIndex_validityOnly(cs) ==
    LET bad == {i \in DOMAIN cs : ~isValidCard(cs[i])}
    IN  IF bad = {} THEN 0 ELSE CHOOSE i \in bad : \A j \in bad : i <= j

\* The forEach that validates the cards and looks for duplicates: the index
\* of the first card that is invalid or repeats an earlier one, 0 if none.
firstBadIndex(cs) ==
    LET bad == {i \in DOMAIN cs :
                    \/ ~isValidCard(cs[i])
                    \/ \E j \in 1..(i - 1) : cs[j] = cs[i]}
    IN  IF bad = {} THEN 0 ELSE CHOOSE i \in bad : \A j \in bad : i <= j

\* what the forEach throws at index i
inputError(cs, i) ==
    IF ~isValidCard(cs[i])
    THEN Thrown("Invalid card")
    ELSE Thrown("Duplicate card found")

\* a single card that is classified like any short hand
singleCardResult_classified(cs) ==
    LET evaluation == evaluateHandRank(cs) IN
    IF evaluation.status = "error"
    THEN evaluation
    ELSE HandRankResult(evaluation.handRankTitle, evaluation.handRankLevel,
                        evaluation.rankingCards)

\* cards.length < 2: the single card is returned unvalidated
singleCardResult(cs) == HandRankResult("High Card", 10, cs)

\* the branch returning the cards of the last combination it evaluated
bestOfCombinations_lastCards(cs) ==
    LET combinations == getCombinations(cs, HAND_SIZE)
        bestHand == foldBest(combinations, 1, Len(combinations), [status |-> "null"])
    IN
    IF bestHand.status = "null"
    THEN Thrown("Failed to evaluate any valid hand combination")
    ELSE HandRankResult(bestHand.handRankTitle, bestHand.handRankLevel,
                        sortCardsByRank(combinations[Len(combinations)]))

\* the best-of-all-combinations branch (5 or more cards)
bestOfCombinations(cs) ==
    LET combinations == getCombinations(cs, HAND_SIZE)
        bestHand == foldBest(combinations, 1, Len(combinations), [status |-> "null"])
    IN
    IF bestHand.status = "null"
    THEN Thrown("Failed to evaluate any valid hand combination")
    ELSE HandRankResult(bestHand.handRankTitle, bestHand.handRankLevel,
                        bestHand.rankingCards)

getBestHandCombination(cs) ==
    IF Len(cs) = 0
    THEN HandRankResult("No Hand", 0, <<>>)
    ELSE IF Len(cs) < 2
    THEN singleCardResult(cs)
    ELSE IF tooManyCards(cs)
    THEN Thrown("Invalid input: 1-10 cards required")
    ELSE IF firstBadIndex(cs) # 0
    THEN inputError(cs, firstBadIndex(cs))
    ELSE IF Len(cs) < HAND_SIZE
    THEN LET evaluation == evaluateHandRank(cs) IN
         IF evaluation.status = "error"
         THEN evaluation    \* not caught here: the error leaves the call
         ELSE HandRankResult(evaluation.handRankTitle, evaluation.handRankLevel,
                             evaluation.rankingCards)
    ELSE bestOfCombinations(cs)


\* The array handed to getBestHandCombination as it is after the call.
\* The early returns and the validating forEach only read it; fewer than 5
\* cards go to evaluateHandRank as they are; from 5 cards on getCombinations
\* reads cards[i] and every combination is a new array ([...current]).
cardsAfterBestHand(cs) ==
    IF Len(cs) < 2 \/ tooManyCards(cs) \/ firstBadIndex(cs) # 0
    THEN cs
    ELSE IF Len(cs) < HAND_SIZE
    THEN cardsAfterEvaluateHandRank(cs)
    ELSE cs

\* the element that players.map builds for one player (bestHand succeeded)
playerResult(player, bestHand) ==
    [playerID |-> player.playerID,
     bestCombineCards |-> bestHand.bestFiveCards,
     allCards |-> player.allCards,
     handRank |-> [handRankTitle |-> bestHand.handRankTitle,
                   handRankLevel |-> bestHand.handRankLevel]]

\* the comparator ordering different levels the other way round
sortComparator_levelDescending(a, b) ==
    IF a.handRank.handRankLevel # b.handRank.handRankLevel
    THEN b.handRank.handRankLevel - a.handRank.handRankLevel
    ELSE IF compareHandValuesIsNaN(b.bestCombineCards, a.bestCombineCards)
    THEN 0
    ELSE compareHandValues(b.bestCombineCards, a.bestCombineCards)

\* The comparator handed to playerResults.sort: the number it returns.
\* (Where compareHandValues yields NaN, SortCompare reads it as +0.)
sortComparator(a, b) ==
    IF a.handRank.handRankLevel # b.handRank.handRankLevel
    THEN a.handRank.handRankLevel - b.handRank.handRankLevel
    ELSE IF compareHandValuesIsNaN(b.bestCombineCards, a.bestCombineCards)
    THEN 0
    ELSE compareHandValues(b.bestCombineCards, a.bestCombineCards)

\* the comparator calls compareHandValues on a pair that makes it throw
sortComparatorThrows(a, b) ==
    /\ a.handRank.handRankLevel = b.handRank.handRankLevel
    /\ compareHandValuesThrows(b.bestCombineCards, a.bestCombineCards)

sortComparatorIsNaN(a, b) ==
    /\ a.handRank.handRankLevel = b.handRank.handRankLevel
    /\ compareHandValuesIsNaN(b.bestCombineCards, a.bestCombineCards)

\* ECMAScript's "consistent comparator" over the elements being sorted:
\* (an element whose comparison with itself would throw is never compared
\* with itself by sort and counts as equal to itself)
\* never NaN, and =, < and > behave as an equivalence and a strict order.
consistentComparator(rs) ==
    LET I == DOMAIN rs
        c(i, j) == IF sortComparatorThrows(rs[i], rs[j])
                   THEN 0
                   ELSE sortComparator(rs[i], rs[j])
    IN  /\ \A i, j \in I : ~sortComparatorIsNaN(rs[i], rs[j])
        /\ \A i \in I : c(i, i) = 0
        /\ \A i, j \in I : /\ (c(i, j) = 0 => c(j, i) = 0)
                           /\ (c(i, j) < 0 => c(j, i) > 0)
        /\ \A i, j, k \in I :
              /\ (c(i, j) = 0 /\ c(j, k) = 0 => c(i, k) = 0)
              /\ (c(i, j) < 0 /\ c(j, k) < 0 => c(i, k) < 0)
              /\ (c(i, j) > 0 /\ c(j, k) > 0 => c(i, k) > 0)

Permutations1(n) ==
    {p \in [1..n -> 1..n] : \A i, j \in 1..n : p[i] = p[j] => i = j}

\* The orders Array.prototype.sort may leave playerResults in, each as the
\* sequence of original indices: with a consistent comparator the one
\* stable ascending order; otherwise the order is implementation-defined.
sortOutcomes(rs) ==
    IF consistentComparator(rs)
    THEN {p \in Permutations1(Len(rs)) :
            \A k, l \in DOMAIN rs : k < l =>
                LET c == sortComparator(rs[p[k]], rs[p[l]]) IN
                c < 0 \/ (c = 0 /\ p[k] < p[l])}
    ELSE Permutations1(Len(rs))

\* sort must compare two elements that no third element separates, so it
\* throws when two players of the same level make the comparator throw
sortThrows(rs) ==
    \E i, j \in DOMAIN rs : i # j /\ sortComparatorThrows(rs[i], rs[j])

\* the filter keeping only hands that the highest hand beats
isWinner_strict(highestHand, player) ==
    /\ player.handRank.handRankLevel = highestHand.handRank.handRankLevel
    /\ ~compareHandValuesIsNaN(highestHand.bestCombineCards, player.bestCombineCards)
    /\ compareHandValues(highestHand.bestCombineCards, player.bestCombineCards) > 0

\* the predicate of playerResults.filter: its value where it returns one
isWinner(highestHand, player) ==
    IF player.handRank.handRankLevel # highestHand.handRank.handRankLevel
    THEN FALSE
    ELSE IF compareHandValuesIsNaN(highestHand.bestCombineCards, player.bestCombineCards)
    THEN FALSE
    ELSE compareHandValues(highestHand.bestCombineCards, player.bestCombineCards) = 0

isWinnerThrows(highestHand, player) ==
    /\ player.handRank.handRankLevel = highestHand.handRank.handRankLevel
    /\ compareHandValuesThrows(highestHand.bestCombineCards, player.bestCombineCards)

WinnerResult(winners) ==
    [status |-> "ok", winCount |-> Len(winners), winners |-> winners]

\* steps 3 and 4 of evaluateWinners on playerResults left in order p
selectWinners(rs, p) ==
    LET sorted == [k \in DOMAIN rs |-> rs[p[k]]]
        highestHand == sorted[1]
        keep(player) == isWinner(highestHand, player)
    IN  IF \E k \in DOMAIN sorted : isWinnerThrows(highestHand, sorted[k])
        THEN Thrown("TypeError")
        ELSE WinnerResult(SelectSeq(sorted, keep))

RECURSIVE mapBestHands(_, _)
\* players.map up to player k: each player's best hand, in input order
mapBestHands(ps, k) ==
    IF k = 0 THEN << >>
    ELSE Append(mapBestHands(ps, k - 1), getBestHandCombination(ps[k].allCards))

RECURSIVE mapPlayerResults(_, _, _)
mapPlayerResults(ps, best, k) ==
    IF k = 0 THEN << >>
    ELSE Append(mapPlayerResults(ps, best, k - 1), playerResult(ps[k], best[k]))

\* steps 3 and 4 of evaluateWinners on the mapped playerResults
sortAndSelect(rs) ==
    IF sortThrows(rs)
    THEN {Thrown("TypeError")}
    ELSE {selectWinners(rs, p) : p \in sortOutcomes(rs)}

\* players.map that leaves out the players whose hand raised an error
mapAndSelect_skipFailed(ps, best) ==
    LET good == {i \in DOMAIN ps : best[i].status = "ok"}
        nth(k) == CHOOSE i \in good : Cardinality({j \in good : j < i}) = k - 1
    IN  IF good = {}
        THEN {WinnerResult(<< >>)}
        ELSE UNION {sortAndSelect(rs) :
                      rs \in {[k \in 1..Cardinality(good) |->
                                  playerResult(ps[nth(k)], best[nth(k)])]}}

\* step 2 of evaluateWinners: the first failing player's error propagates
mapAndSelect(ps, best) ==
    IF \E i \in DOMAIN ps : best[i].status = "error"
    THEN {best[CHOOSE i \in DOMAIN ps :
                   /\ best[i].status = "error"
                   /\ \A j \in 1..(i - 1) : best[j].status # "error"]}
    ELSE UNION {sortAndSelect(rs) : rs \in {mapPlayerResults(ps, best, Len(ps))}}

\* The outcomes of evaluateWinners(ps): a set, because the order sort
\* leaves is implementation-defined under an inconsistent comparator.
evaluateWinners(ps) ==
    IF Len(ps) = 0
    THEN {Thrown("Invalid input: players must be a non-empty array")}
    ELSE UNION {mapAndSelect(ps, best) : best \in {mapBestHands(ps, Len(ps))}}

RECURSIVE playersAfterMap(_, _, _)
\* the first k players as they are after evaluateWinners, best being the
\* outcome of getBestHandCombination for each player
playersAfterMap(ps, best, k) ==
    IF k = 0 THEN << >>
    ELSE LET reached == \A j \in 1..(k - 1) : best[j].status # "error"
             compared == \A j \in DOMAIN best : best[j].status # "error"
             afterMap == IF reached
                         THEN cardsAfterBestHand(ps[k].allCards)
                         ELSE ps[k].allCards
             afterCompare == IF compared /\ Len(afterMap) = 1
                             THEN cardsAfterSort(afterMap)
                             ELSE afterMap
         IN  Append(playersAfterMap(ps, best, k - 1),
                    [playerID |-> ps[k].playerID, allCards |-> afterCompare])

\* The players array as it is after evaluateWinners(ps).  players.map
\* builds a new array, and sort and filter work on that one, so the order
\* of the players stays.  Each allCards has been through
\* getBestHandCombination, up to and including the first player whose hand
\* raises an error.  When the map completes, the comparisons hand every
\* bestCombineCards to sortCardsByRank; for a player with one card that
\* array is allCards itself (bestFiveCards: cards).
playersAfterWinners(ps) ==
    CHOOSE after \in {playersAfterMap(ps, best, Len(ps)) :
                         best \in {mapBestHands(ps, Len(ps))}} : TRUE

(* ------------------------------------------------------------------ *)
(* The caller: inputs and calls                                        *)
(* ------------------------------------------------------------------ *)
NoResult == [status |-> "none"]

\* The caller's deck for single-hand classification, in dealing order: one
\* card that fails isValidCard, then cards that between them make every
\* category of the rule table, the wheel and a wrap-around.
DeckOrder ==
    << Card(1, 1),
       Card(14, 1), Card(13, 1), Card(12, 1), Card(11, 1), Card(10, 1),
       Card(5, 1), Card(4, 1), Card(3, 1), Card(2, 1),
       Card(14, 2), Card(2, 2), Card(2, 3), Card(2, 4),
       Card(13, 2), Card(6, 3) >>

\* how many cards of DeckOrder the caller deals from
DeckSize == 14

DeckPos(c) == CHOOSE k \in DOMAIN DeckOrder : DeckOrder[k] = c

InDeckOrder(cs) == \A i \in 1..(Len(cs) - 1) : DeckPos(cs[i]) < DeckPos(cs[i + 1])

\* The caller deals the next card: any card further down the deck than the
\* ones already dealt.
DealCard ==
    /\ result = NoResult
    /\ Len(cards) < HAND_SIZE
    /\ InDeckOrder(cards)
    /\ \E k \in 1..DeckSize :
          /\ \A i \in DOMAIN cards : DeckPos(cards[i]) < k
          /\ cards' = Append(cards, DeckOrder[k])
    /\ UNCHANGED <<players, hands, code, result>>

\* The caller cuts the hand: the first card goes to the end.
CutCards ==
    /\ result = NoResult
    /\ Len(cards) >= 2
    /\ cards' = Append(Tail(cards), Head(cards))
    /\ UNCHANGED <<players, hands, code, result>>

\* The caller calls getBestHandCombination(cards); cards is the caller's
\* array, read again after the call.
CallBestHand ==
    /\ result = NoResult
    /\ result' = getBestHandCombination(cards)
    /\ cards' = cardsAfterBestHand(cards)
    /\ UNCHANGED <<players, hands, code>>

Init ==
    /\ cards = <<>>
    /\ players = <<>>
    /\ hands = <<>>
    /\ code = <<>>
    /\ result = NoResult

NextHand == DealCard \/ CutCards \/ CallBestHand

SpecHand == Init /\ [][NextHand]_vars

\* The caller's cards for best-of-many selection: two aces, the wheel in
\* one suit and an off-suit six, so that straight flush, straights, pairs
\* and high cards compete.
BestDeckOrder ==
    << Card(14, 1), Card(5, 1), Card(4, 1), Card(3, 1), Card(2, 1),
       Card(14, 2), Card(6, 2) >>

BestDeck == Range(BestDeckOrder)

BestPos(c) == CHOOSE k \in DOMAIN BestDeckOrder : BestDeckOrder[k] = c

\* longest list the caller passes for best-of-many selection
MaxBestLen == 6

\* The caller adds one more distinct card, anywhere in its order of choice.
AddCard ==
    /\ result = NoResult
    /\ Len(cards) < MaxBestLen
    /\ Range(cards) \subseteq BestDeck
    /\ \E c \in BestDeck \ Range(cards) : cards' = Append(cards, c)
    /\ UNCHANGED <<players, hands, code, result>>

\* A side pile of distinct valid cards, none of them in BestDeck, from which the caller tops a list up in pile order.
Filler ==
    << Card(7, 1), Card(14, 3), Card(6, 1), Card(5, 2),
       Card(9, 3), Card(8, 4), Card(13, 3), Card(12, 4),
       Card(11, 3), Card(10, 2), Card(9, 4), Card(3, 3) >>

nextFiller(cs) ==
    Filler[CHOOSE k \in DOMAIN Filler :
                /\ Filler[k] \notin Range(cs)
                /\ \A j \in 1..(k - 1) : Filler[j] \in Range(cs)]

\* how many cards the caller tops a best-of-many list up by
MaxTopUp == 4

\* The caller tops up a list of BestDeck cards held in pile order with the
\* next card of the side pile, up to the 10 cards a call accepts.
TopUp ==
    /\ result = NoResult
    /\ Len(cards) < MAX_CARDS
    /\ LET own == SelectSeq(cards, LAMBDA c : c \in BestDeck) IN
          /\ \A i \in 1..(Len(own) - 1) : BestPos(own[i]) < BestPos(own[i + 1])
          /\ Len(cards) - Len(own) < MaxTopUp
    /\ cards' = Append(cards, nextFiller(cards))
    /\ UNCHANGED <<players, hands, code, result>>

NextBest == AddCard \/ TopUp \/ CallBestHand

SpecBest == Init /\ [][NextBest]_vars


\* The caller's raw cards for input validation: a second copy of the top
\* card of the side pile, and two cards that fail isValidCard (rank below
\* 2; suit above 4).
RawDeck == { Card(7, 1), Card(1, 1), Card(14, 5) }

\* how many defective entries (a card that fails isValidCard, or a repeat
\* of an earlier card) the caller's list holds at most
MaxDefects == 2

\* how far past the 10 cards a call accepts the caller's list may grow
MaxExtra == 1

defects(cs) ==
    {i \in DOMAIN cs : ~isValidCard(cs[i]) \/ \E j \in 1..(i - 1) : cs[j] = cs[i]}

\* The caller appends a raw card; raw cards may repeat.
PushRaw ==
    /\ result = NoResult
    /\ Len(cards) < MAX_CARDS + MaxExtra
    /\ Cardinality(defects(cards)) < MaxDefects
    /\ \E c \in RawDeck : cards' = Append(cards, c)
    /\ UNCHANGED <<players, hands, code, result>>

\* The caller appends the next card of the side pile.
PadCard ==
    /\ result = NoResult
    /\ Len(cards) < MAX_CARDS + MaxExtra
    /\ ~(Range(Filler) \subseteq Range(cards))
    /\ cards' = Append(cards, nextFiller(cards))
    /\ UNCHANGED <<players, hands, code, result>>

NextInput == PushRaw \/ PadCard \/ CallBestHand

SpecInput == Init /\ [][NextInput]_vars

\* The hands the caller seats players with: one and two cards of one level
\* that differ in kicker, suit and length, two orders of the same pair, and
\* five-card straights that differ only in suits.
WinHands ==
    { << Card(10, 1) >>,
      << Card(10, 2) >>,
      << Card(10, 1), Card(10, 2) >>,
      << Card(10, 2), Card(10, 1) >>,
      << Card(10, 2), Card(9, 1) >>,
      << Card(10, 1), Card(8, 1) >>,
      << Card(9, 1), Card(8, 2), Card(7, 3), Card(6, 4), Card(5, 1) >>,
      << Card(9, 1), Card(8, 2), Card(7, 3), Card(6, 4), Card(5, 2) >>,
      << Card(9, 2), Card(8, 2), Card(7, 3), Card(6, 4), Card(5, 1) >> }

\* how many players the caller seats at most
MaxPlayers == 3

\* The caller seats one more player; playerID is the seat number.
SeatPlayer ==
    /\ result = NoResult
    /\ Len(players) < MaxPlayers
    /\ \E h \in WinHands :
          players' = Append(players, [playerID |-> Len(players) + 1, allCards |-> h])
    /\ UNCHANGED <<cards, hands, code, result>>

\* The caller calls evaluateWinners(players); players is the caller's
\* array, read again after the call.
CallWinners ==
    /\ result = NoResult
    /\ \E r \in evaluateWinners(players) : result' = r
    /\ players' = playersAfterWinners(players)
    /\ UNCHANGED <<cards, hands, code>>

NextWinners == SeatPlayer \/ CallWinners

SpecWinners == Init /\ [][NextWinners]_vars


\* The hands at a table where not every hand is a proper one: no cards, one
\* card, a pair, the wheel, the six-high straight, six cards holding both
\* of these straights, a hand with an invalid card, a hand with a repeated
\* card, and eleven cards.
TableHands ==
    { << >>,
      << Card(10, 1) >>,
      << Card(10, 1), Card(10, 2) >>,
      << Card(14, 2), Card(5, 1), Card(4, 1), Card(3, 1), Card(2, 1) >>,
      << Card(6, 2), Card(5, 1), Card(4, 1), Card(3, 1), Card(2, 1) >>,
      << Card(14, 2), Card(6, 2), Card(5, 1), Card(4, 1), Card(3, 1), Card(2, 1) >>,
      << Card(1, 1), Card(7, 1) >>,
      << Card(7, 1), Card(7, 1) >>,
      SubSeq(Filler, 1, MAX_CARDS + 1) }

\* how many players sit at the table at most
MaxSeats == 3

\* The caller seats one more player at the table; playerID is the seat number.
SeatAtTable ==
    /\ result = NoResult
    /\ Len(players) < MaxSeats
    /\ \E h \in TableHands :
          players' = Append(players, [playerID |-> Len(players) + 1, allCards |-> h])
    /\ UNCHANGED <<cards, hands, code, result>>

NextTable == SeatAtTable \/ CallWinners

SpecTable == Init /\ [][NextTable]_vars


\* The hands the caller compares: one to five valid cards, among them
\* hands that tie in rank and differ in the suit of the top card, hands of
\* different lengths that tie on the shorter one, a pair listed in both
\* orders, and five-card hands that differ in the last kicker only.
CompareHands ==
    { << Card(10, 1) >>,
      << Card(10, 3) >>,
      << Card(10, 4) >>,
      << Card(10, 2), Card(9, 1) >>,
      << Card(10, 1), Card(8, 1) >>,
      << Card(9, 1), Card(10, 2) >>,
      << Card(10, 1), Card(10, 2) >>,
      << Card(10, 2), Card(10, 1) >>,
      << Card(14, 1), Card(13, 1), Card(12, 1), Card(11, 1), Card(10, 1) >>,
      << Card(14, 2), Card(13, 2), Card(12, 2), Card(11, 2), Card(9, 2) >>,
      << Card(9, 2), Card(11, 2), Card(13, 2), Card(12, 2), Card(14, 2) >>,
      << Card(14, 2), Card(5, 1), Card(4, 1), Card(3, 1), Card(2, 1) >> }

\* how many hands the caller picks at most
MaxHands == 3

\* The caller picks one more hand.
PickHand ==
    /\ result = NoResult
    /\ Len(hands) < MaxHands
    /\ \E h \in CompareHands : hands' = Append(hands, h)
    /\ UNCHANGED <<cards, players, code, result>>

\* The caller calls compareHandValues on the first two hands picked.
CallCompare ==
    /\ result = NoResult
    /\ Len(hands) >= 2
    /\ result' = IF compareHandValuesThrows(hands[1], hands[2])
                 THEN Thrown("TypeError")
                 ELSE [status |-> "ok", value |-> compareHandValues(hands[1], hands[2])]
    /\ UNCHANGED <<cards, players, hands, code>>

NextCompare == PickHand \/ CallCompare

SpecCompare == Init /\ [][NextCompare]_vars

\* The cards the caller lists for getCombinations; a card may be listed
\* more than once, the function does not look at the cards.
ComboCards == { Card(7, 1), Card(8, 2), Card(9, 3) }

\* longest list the caller passes to getCombinations
MaxComboLen == 5

\* The caller lists one more card.
ListCard ==
    /\ result = NoResult
    /\ Len(cards) < MaxComboLen
    /\ \E c \in ComboCards : cards' = Append(cards, c)
    /\ UNCHANGED <<players, hands, code, result>>

\* The caller calls getCombinations(cards, size), with any size from 0 to
\* one more than there are cards.
CallCombinations ==
    /\ result = NoResult
    /\ \E size \in 0..(Len(cards) + 1) :
          result' = [status |-> "ok", size |-> size,
                     combinations |-> getCombinations(cards, size)]
    /\ UNCHANGED <<cards, players, hands, code>>

NextCombos == ListCard \/ CallCombinations

SpecCombos == Init /\ [][NextCombos]_vars

\* the card codes the caller picks from run from -MaxCode to MaxCode
MaxCode == 5020

\* the cards the caller picks from: every rank from 0 to MaxCardRank with
\* every suit from 0 to MaxCardSuit, valid or not
MaxCardRank == 16

MaxCardSuit == 5

\* The caller picks a card code to decode.
PickCode ==
    /\ result = NoResult
    /\ code = <<>>
    /\ cards = <<>>
    /\ \E n \in (-MaxCode)..MaxCode : code' = <<n>>
    /\ UNCHANGED <<cards, players, hands, result>>

\* The caller picks a card to encode.
PickCard ==
    /\ result = NoResult
    /\ code = <<>>
    /\ cards = <<>>
    /\ \E r \in 0..MaxCardRank, s \in 0..MaxCardSuit : cards' = <<Card(r, s)>>
    /\ UNCHANGED <<players, hands, code, result>>

\* The caller calls convertToCard(code).
CallConvertToCard ==
    /\ result = NoResult
    /\ Len(code) = 1
    /\ result' = IF convertToCardThrows(code[1])
                 THEN Thrown("Invalid card code")
                 ELSE [status |-> "ok", card |-> convertToCard(code[1])]
    /\ UNCHANGED <<cards, players, hands, code>>

\* The caller calls convertToCardCode(card).
CallConvertToCardCode ==
    /\ result = NoResult
    /\ Len(cards) = 1
    /\ result' = IF convertToCardCodeThrows(cards[1])
                 THEN Thrown("Invalid card")
                 ELSE [status |-> "ok", cardCode |-> convertToCardCode(cards[1])]
    /\ UNCHANGED <<cards, players, hands, code>>

NextCodec == PickCode \/ PickCard \/ CallConvertToCard \/ CallConvertToCardCode

SpecCodec == Init /\ [][NextCodec]_vars

\* Three cards, two of one rank, that the caller lists in any order.
FrameCards == { Card(9, 2), Card(7, 1), Card(9, 3) }

RECURSIVE orderings(_)
\* every ordering of the cards of the set S
orderings(S) ==
    IF S = {} THEN { << >> }
    ELSE UNION { {Append(o, c) : o \in orderings(S \ {c})} : c \in S }

\* The arrays a caller holds on to after a call: every ordering of one, two
\* or three of the FrameCards, and longer or improper arrays that are not
\* in rank order: five cards, six cards holding a straight, an array
\* with an invalid card, one with a repeated card, eleven cards, and none.
FrameHands ==
    UNION { orderings(S) : S \in SUBSET FrameCards }
    \cup
    { << Card(2, 1), Card(14, 2), Card(3, 1), Card(5, 1), Card(4, 1) >>,
      << Card(2, 1), Card(6, 2), Card(14, 2), Card(3, 1), Card(5, 1), Card(4, 1) >>,
      << Card(7, 1), Card(1, 1), Card(9, 2) >>,
      << Card(7, 1), Card(9, 2), Card(7, 1) >>,
      << Card(3, 3) >> \o SubSeq(Filler, 1, MAX_CARDS) }

\* how many players the caller passes at most while holding on to the arrays
MaxHolders == 2

\* The caller takes one array of cards to pass to getBestHandCombination.
TakeHand ==
    /\ result = NoResult
    /\ cards = <<>>
    /\ players = <<>>
    /\ \E h \in FrameHands \ { << >> } : cards' = h
    /\ UNCHANGED <<players, hands, code, result>>

\* The caller adds a player holding one of the arrays.
SeatHolder ==
    /\ result = NoResult
    /\ cards = <<>>
    /\ Len(players) < MaxHolders
    /\ \E h \in FrameHands :
          players' = Append(players, [playerID |-> Len(players) + 1, allCards |-> h])
    /\ UNCHANGED <<cards, hands, code, result>>

NextFrame == TakeHand \/ SeatHolder \/ CallBestHand \/ CallWinners

SpecFrame == Init /\ [][NextFrame]_vars

\* The caller's deck for hands that grow card by card, in dealing order:
\* the four twos, two threes, the run 4-5-6 and the ace in the suit of the
\* first two and three, and odd cards.
GrowDeckOrder ==
    << Card(2, 1), Card(2, 2), Card(2, 3), Card(2, 4), Card(3, 1), Card(3, 2),
       Card(4, 1), Card(5, 1), Card(6, 1), Card(14, 1), Card(9, 3), Card(13, 4),
       Card(7, 2), Card(8, 4) >>

\* how many cards of GrowDeckOrder the caller deals from
GrowDeckSize == 10

GrowPos(c) == CHOOSE k \in DOMAIN GrowDeckOrder : GrowDeckOrder[k] = c

\* The caller deals the next card of the growing hand: any card further
\* down the deck than the ones already dealt.
GrowCard ==
    /\ result = NoResult
    /\ Len(cards) < MAX_CARDS
    /\ \A i \in 1..(Len(cards) - 1) : GrowPos(cards[i]) < GrowPos(cards[i + 1])
    /\ \E k \in 1..GrowDeckSize :
          /\ \A i \in DOMAIN cards : GrowPos(cards[i]) < k
          /\ cards' = Append(cards, GrowDeckOrder[k])
    /\ UNCHANGED <<players, hands, code, result>>

NextGrow == GrowCard \/ CutCards \/ CallBestHand

SpecGrow == Init /\ [][NextGrow]_vars

(* ------------------------------------------------------------------ *)
(* Properties                                                          *)
(* ------------------------------------------------------------------ *)
called == result.status # "none"

allValid(cs) == \A i \in DOMAIN cs : isValidCard(cs[i])

allDistinct(cs) == \A i, j \in DOMAIN cs : cs[i] = cs[j] => i = j

rankSet(cs) == {cs[i].rank : i \in DOMAIN cs}

suitSet(cs) == {cs[i].suit : i \in DOMAIN cs}

ranksWithCount(cs, n) ==
    {r \in rankSet(cs) : Cardinality({i \in DOMAIN cs : cs[i].rank = r}) = n}

\* five ranks in sequence, the ace counting low only in A-2-3-4-5
straightRanks(cs) ==
    \/ rankSet(cs) = {14, 2, 3, 4, 5}
    \/ \E low \in 2..10 : rankSet(cs) = low..(low + 4)

\* the rule table, first match wins, stated on the cards as a set
ruleLevel(cs) ==
    LET flush == Cardinality(suitSet(cs)) = 1
        straight == straightRanks(cs)
    IN  IF flush /\ straight /\ {14, 13} \subseteq rankSet(cs) THEN 1
        ELSE IF flush /\ straight THEN 2
        ELSE IF ranksWithCount(cs, 4) # {} THEN 3
        ELSE IF ranksWithCount(cs, 3) # {} /\ ranksWithCount(cs, 2) # {} THEN 4
        ELSE IF flush THEN 5
        ELSE IF straight THEN 6
        ELSE IF ranksWithCount(cs, 3) # {} THEN 7
        ELSE IF Cardinality(ranksWithCount(cs, 2)) = 2 THEN 8
        ELSE IF Cardinality(ranksWithCount(cs, 2)) = 1 THEN 9
        ELSE 10

ruleTitle ==
    << "Royal Flush", "Straight Flush", "Four of a Kind", "Full House", "Flush",
       "Straight", "Three of a Kind", "Two Pair", "One Pair", "High Card" >>

\* C1: for every list of exactly 5 distinct valid cards the call returns the
\* category the ordered rule table assigns, with levels 1..10 in table
\* order; the suited wheel is Straight Flush (2), the mixed-suit wheel is
\* Straight (6), and the wrap-around Q-K-A-2-3 is no straight.
C1_RuleTable ==
    (called /\ Len(cards) = HAND_SIZE /\ allValid(cards) /\ allDistinct(cards)) =>
        /\ result.status = "ok"
        /\ result.handRankLevel = ruleLevel(cards)
        /\ result.handRankTitle = ruleTitle[ruleLevel(cards)]
        /\ (rankSet(cards) = {14, 2, 3, 4, 5} =>
                result.handRankLevel = IF Cardinality(suitSet(cards)) = 1 THEN 2 ELSE 6)
        /\ (rankSet(cards) = {12, 13, 14, 2, 3} => result.handRankLevel \in {5, 10})

\* the suited wheel has been classified
C1_Witness ==
    /\ result.status = "ok"
    /\ Len(cards) = HAND_SIZE
    /\ rankSet(cards) = {14, 2, 3, 4, 5}
    /\ Cardinality(suitSet(cards)) = 1
    /\ result.handRankTitle = "Straight Flush"

\* the cards of cs at the indices S, in input order
subHand(cs, S) ==
    [k \in 1..Cardinality(S) |->
        cs[CHOOSE i \in S : Cardinality({j \in S : j < i}) = k - 1]]

fiveIndexSets(n) == {S \in SUBSET (1..n) : Cardinality(S) = HAND_SIZE}

\* the classified subset sub beats the returned hand
beatsResult(sub, res) ==
    LET ev == evaluateHandRank(sub) IN
    \/ ev.handRankLevel < res.handRankLevel
    \/ /\ ev.handRankLevel = res.handRankLevel
       /\ compareHandValues(sub, res.bestFiveCards) > 0

\* C2: subset maximality: for 5 to 10 distinct valid cards a hand is
\* returned and no 5-card subset of the input, classified, beats it (lower
\* level, or same level and compareHandValues(subset, result) > 0).
C2_SubsetMaximality ==
    (called /\ Len(cards) >= HAND_SIZE /\ Len(cards) <= MAX_CARDS
        /\ allValid(cards) /\ allDistinct(cards)) =>
        /\ result.status = "ok"
        /\ \A S \in fiveIndexSets(Len(cards)) : ~beatsResult(subHand(cards, S), result)

\* ten cards were passed and the hand returned is of a better level than
\* the first five of them
C2_Witness ==
    /\ result.status = "ok"
    /\ Len(cards) = MAX_CARDS
    /\ evaluateHandRank(SubSeq(cards, 1, HAND_SIZE)).handRankLevel > result.handRankLevel


\* the first position holding a card already seen earlier in the list, 0 if none
firstRepeat(cs) ==
    LET rep == {i \in DOMAIN cs : \E j \in 1..(i - 1) : cs[j] = cs[i]}
    IN  IF rep = {} THEN 0 ELSE CHOOSE i \in rep : \A j \in rep : i <= j

\* C7: more than 10 cards always fail with the card-count error and no
\* result, also when the cards repeat one another or are invalid: the
\* count check comes before the duplicate and validity checks.
C7_CountErrorFirst ==
    (called /\ Len(cards) > MAX_CARDS) =>
        result = Thrown("Invalid input: 1-10 cards required")

\* eleven cards, among them an invalid card and a repeated card, were rejected
C7_Witness ==
    /\ result = Thrown("Invalid input: 1-10 cards required")
    /\ Len(cards) > MAX_CARDS
    /\ ~allValid(cards)
    /\ ~allDistinct(cards)

\* C8 as stated: every input of 2 to 10 cards in which two cards share
\* rank and suit fails with the duplicate-card error.
C8_DuplicateRejected ==
    (called /\ Len(cards) >= 2 /\ Len(cards) <= MAX_CARDS /\ ~allDistinct(cards)) =>
        result = Thrown("Duplicate card found")

\* C8 amended: every input of 2 to 10 cards in which two cards share rank
\* and suit fails and returns no result; the error is the duplicate-card
\* error when every card up to and including the first repeated card is
\* valid, and the invalid-card error otherwise.
C8_DuplicateOrInvalidRejected ==
    (called /\ Len(cards) >= 2 /\ Len(cards) <= MAX_CARDS /\ ~allDistinct(cards)) =>
        result = IF allValid(SubSeq(cards, 1, firstRepeat(cards)))
                 THEN Thrown("Duplicate card found")
                 ELSE Thrown("Invalid card")

\* a repeated card was rejected as a duplicate although an invalid card
\* follows it in the list
C8_Witness ==
    /\ result = Thrown("Duplicate card found")
    /\ Len(cards) >= 2
    /\ Len(cards) <= MAX_CARDS
    /\ ~allValid(cards)
    /\ allValid(SubSeq(cards, 1, firstRepeat(cards)))

\* C9: every input of 1 to 10 cards in which some card has its rank
\* outside [2,14] or its suit outside [1,4] fails with the invalid-card
\* error and yields no successful result.
C9_InvalidRejected ==
    (called /\ Len(cards) >= 1 /\ Len(cards) <= MAX_CARDS /\ ~allValid(cards)) =>
        result = Thrown("Invalid card")

\* C10: the empty list always yields the No Hand sentinel (level 0, no
\* cards), a one-card list always yields High Card, level 10, with
\* bestFiveCards the one card, and no other input yields level 0.
C10_DegenerateCounts ==
    called =>
        /\ Len(cards) = 0 => result = HandRankResult("No Hand", 0, << >>)
        /\ Len(cards) = 1 => result = HandRankResult("High Card", 10, cards)
        /\ (result.status = "ok" /\ result.handRankLevel = 0) => Len(cards) = 0

\* a single card came back as the whole hand
C10_Witness ==
    /\ Len(cards) = 1
    /\ result.status = "ok"
    /\ result.handRankTitle = "High Card"
    /\ result.bestFiveCards = cards

\* the input player's best hand: its level and its five cards
handOf(i) ==
    LET bestHand == getBestHandCombination(players[i].allCards)
    IN  [level |-> bestHand.handRankLevel, hand |-> bestHand.bestFiveCards]

\* hand a beats hand b: lower level, or same level and the comparator > 0
beats(a, b) ==
    \/ a.level < b.level
    \/ a.level = b.level /\ compareHandValues(a.hand, b.hand) > 0

equalHands(a, b) ==
    a.level = b.level /\ compareHandValues(a.hand, b.hand) = 0

winnerIDs == {result.winners[k].playerID : k \in DOMAIN result.winners}

playerIDs == {players[i].playerID : i \in DOMAIN players}

seatOf(id) == CHOOSE i \in DOMAIN players : players[i].playerID = id

ranksDescending(cs) ==
    LET sortedCards == sortCardsByRank(cs)
    IN  [i \in DOMAIN sortedCards |-> sortedCards[i].rank]

\* C3: split pot: two players holding the same set of cards, each listed
\* in whatever order, both win: winCount = 2 with both IDs in winners.
C3_SplitPot ==
    (called /\ Len(players) = 2
        /\ Len(players[1].allCards) = Len(players[2].allCards)
        /\ Range(players[1].allCards) = Range(players[2].allCards)) =>
        /\ result.status = "ok"
        /\ result.winCount = 2
        /\ winnerIDs = playerIDs

\* C4: two players whose best hands have the same level and the same
\* rank-descending rank sequence are tied regardless of suit: one is in
\* the winner set exactly when the other is.
C4_TiedRegardlessOfSuit ==
    result.status = "ok" =>
        \A i, j \in DOMAIN players :
            (/\ handOf(i).level = handOf(j).level
             /\ ranksDescending(handOf(i).hand) = ranksDescending(handOf(j).hand)) =>
                (players[i].playerID \in winnerIDs <=> players[j].playerID \in winnerIDs)

\* C5: the winner set is exactly the players comparing equal to the
\* top-ranked player, who is a true maximum: no player outside the winner
\* set beats a winner, and all winners compare equal to each other.
C5_WinnersAreMaximal ==
    result.status = "ok" =>
        /\ \A i \in DOMAIN players :
               players[i].playerID \in winnerIDs <=>
                   equalHands(handOf(i), handOf(seatOf(result.winners[1].playerID)))
        /\ \A i \in DOMAIN players : \A w \in winnerIDs :
               players[i].playerID \notin winnerIDs => ~beats(handOf(i), handOf(seatOf(w)))
        /\ \A v, w \in winnerIDs : equalHands(handOf(seatOf(v)), handOf(seatOf(w)))

\* C6: every call that returns a result has winCount equal to the number
\* of entries in winners and at least 1, and every winner's playerID is
\* the ID of an input player.
C6_WinCount ==
    result.status = "ok" =>
        /\ result.winCount = Len(result.winners)
        /\ result.winCount >= 1
        /\ winnerIDs \subseteq playerIDs

\* three players were evaluated and two of them share the pot
C6_Witness ==
    /\ result.status = "ok"
    /\ Len(players) = 3
    /\ result.winCount = 2
    /\ Cardinality(winnerIDs) = 2

\* each input player's best hand, or the error it raised, in input order
bestHands == mapBestHands(players, Len(players))

allOk(best) == \A i \in DOMAIN best : best[i].status = "ok"

noCards(i) == Len(players[i].allCards) = 0

\* C11: a winner set is returned only if players is non-empty and
\* getBestHandCombination succeeds for every player: an empty player list
\* fails with 'Invalid input: players must be a non-empty array', and an
\* error raised for any single player's hand aborts the whole call with
\* that error and no partial winner set.
C11_ErrorsAbort ==
    called =>
        \A best \in {bestHands} :
            /\ Len(players) = 0 =>
                   result = Thrown("Invalid input: players must be a non-empty array")
            /\ \A i \in DOMAIN players :
                   (best[i].status = "error"
                       /\ \A j \in 1..(i - 1) : best[j].status = "ok") =>
                       result = best[i]
            /\ result.status = "ok" => (Len(players) > 0 /\ allOk(best))

\* three players, the first two with proper hands, and the call was
\* aborted by the repeated card of the third
C11_Witness ==
    /\ Len(players) = 3
    /\ result = Thrown("Duplicate card found")
    /\ \A best \in {bestHands} :
           /\ best[1].status = "ok"
           /\ best[2].status = "ok"
           /\ best[3] = Thrown("Duplicate card found")

\* C12: the No Hand sentinel is never compared against real hands: a
\* player whose allCards is empty is never ranked ahead of, and never wins
\* against, a player holding at least one card.
C12_NoHandNeverAhead ==
    (called /\ Len(players) > 0) =>
        \A best \in {bestHands} :
            allOk(best) =>
                \A rs \in {mapPlayerResults(players, best, Len(players))} :
                    /\ ~sortThrows(rs) =>
                           \A p \in sortOutcomes(rs) : \A k, l \in DOMAIN rs :
                               (k < l /\ noCards(p[k])) => noCards(p[l])
                    /\ result.status = "ok" =>
                           \A i, j \in DOMAIN players :
                               (noCards(i) /\ players[i].playerID \in winnerIDs)
                                   => noCards(j)

sign(n) == IF n > 0 THEN 1 ELSE IF n < 0 THEN -1 ELSE 0

\* C13: compareHandValues is a consistent order over non-empty hands of 1
\* to 5 valid cards, also of different lengths: compare(a,a) = 0, the sign
\* of compare(a,b) is opposite to that of compare(b,a), compare(a,b) >= 0
\* and compare(b,c) >= 0 imply compare(a,c) >= 0, and compare(a,b) = 0 and
\* compare(b,c) = 0 imply compare(a,c) = 0.
C13_ConsistentOrder ==
    (result.status = "ok" /\ Len(hands) = 3) =>
        LET a == hands[1]
            b == hands[2]
            c == hands[3]
        IN  /\ result.value = compareHandValues(a, b)
            /\ compareHandValues(a, a) = 0
            /\ sign(compareHandValues(b, a)) = -sign(result.value)
            /\ (result.value >= 0 /\ compareHandValues(b, c) >= 0) =>
                   compareHandValues(a, c) >= 0
            /\ (result.value = 0 /\ compareHandValues(b, c) = 0) =>
                   compareHandValues(a, c) = 0

\* C14: compareHandValues returns only -1, 0 or 1 for non-empty hands of
\* valid cards: 1 if the first hand is better, -1 if the second is, 0 if equal.
C14_ReturnsSign ==
    (result.status = "ok" /\ Len(hands) >= 2) => result.value \in {-1, 0, 1}

\* the ranks of a hand from the highest down, repeated ranks included
descRanks(h) ==
    [k \in DOMAIN h |->
        CHOOSE r \in rankSet(h) :
            /\ Cardinality({i \in DOMAIN h : h[i].rank > r}) < k
            /\ Cardinality({i \in DOMAIN h : h[i].rank >= r}) >= k]

\* lexicographic comparison of two rank sequences of one length
lexSign(x, y) ==
    LET d == {i \in DOMAIN x : x[i] # y[i]} IN
    IF d = {} THEN 0
    ELSE LET i == CHOOSE i \in d : \A j \in d : i <= j
         IN  IF x[i] > y[i] THEN 1 ELSE -1

\* the highest card of a hand: of its highest rank, the one listed first
topCard(h) ==
    h[CHOOSE i \in DOMAIN h :
          \A j \in DOMAIN h :
              h[j].rank < h[i].rank \/ (h[j].rank = h[i].rank /\ i <= j)]

foldFollowsLevel(cs, returned) ==
    LET classified == {<<subHand(cs, S), evaluateHandRank(subHand(cs, S))>> :
                          S \in fiveIndexSets(Len(cs))}
    IN  \A best, candidate \in classified :
            LET next == foldStep(best[2], candidate[1]) IN
            /\ candidate[2].handRankLevel < best[2].handRankLevel => next = candidate[2]
            /\ candidate[2].handRankLevel > best[2].handRankLevel => next = best[2]
            /\ returned.handRankLevel <= candidate[2].handRankLevel

\* C15: monotonic ordinal law: of two classified hands with different
\* handRankLevel the one with the lower level wins whatever its cards: in
\* the fold of getBestHandCombination a candidate of lower level always
\* replaces the best so far and one of higher level never does, and in
\* evaluateWinners a player of lower level always ranks ahead of a player
\* of higher level.
C15_LowerLevelWins ==
    (called /\ Len(players) > 0) =>
        \A best \in {bestHands} :
            allOk(best) =>
                \A rs \in {mapPlayerResults(players, best, Len(players))} :
                    /\ \A i \in DOMAIN players :
                           Len(players[i].allCards) >= HAND_SIZE =>
                               foldFollowsLevel(players[i].allCards, best[i])
                    /\ \A i, j \in DOMAIN players :
                           best[i].handRankLevel < best[j].handRankLevel =>
                               /\ sortComparator(rs[i], rs[j]) < 0
                               /\ sortComparator(rs[j], rs[i]) > 0
                    /\ ~sortThrows(rs) =>
                           \A p \in sortOutcomes(rs) : \A k, l \in DOMAIN rs :
                               k < l => best[p[k]].handRankLevel <= best[p[l]].handRankLevel
                    /\ result.status = "ok" =>
                           \A k \in DOMAIN result.winners : \A i \in DOMAIN players :
                               result.winners[k].handRank.handRankLevel
                                   <= best[i].handRankLevel

\* a six-card hand whose fold met candidates of levels 6 and 10 won, as a
\* straight, against a high card and a pair
C15_Witness ==
    /\ result.status = "ok"
    /\ Len(players) = 3
    /\ Len(players[1].allCards) = 6
    /\ winnerIDs = {players[1].playerID}
    /\ \A best \in {bestHands} :
           /\ best[1].handRankLevel = 6
           /\ best[2].handRankLevel = 10
           /\ best[3].handRankLevel = 9
    /\ \E S \in fiveIndexSets(6) :
           evaluateHandRank(subHand(players[1].allCards, S)).handRankLevel = 10

wheelRanks == {14, 5, 4, 3, 2}

sixHighRanks == {6, 5, 4, 3, 2}

\* C17: the ace counts low inside the wheel A-2-3-4-5, so among
\* straights (and among straight flushes) the wheel ranks below
\* 2-3-4-5-6: from cards holding both a wheel and a six-high straight
\* getBestHandCombination returns the six-high straight, and in
\* evaluateWinners a six-high straight beats a wheel of the same category.
C17_WheelBelowSixHigh ==
    (called /\ Len(players) > 0) =>
        \A best \in {bestHands} :
            allOk(best) =>
                /\ \A i \in DOMAIN players :
                       (/\ (wheelRanks \cup sixHighRanks) \subseteq rankSet(players[i].allCards)
                        /\ best[i].handRankLevel \in {2, 6}) =>
                           rankSet(best[i].bestFiveCards) = sixHighRanks
                /\ result.status = "ok" =>
                       \A i, j \in DOMAIN players :
                           (/\ best[i].handRankLevel = best[j].handRankLevel
                            /\ best[i].handRankLevel \in {2, 6}
                            /\ rankSet(best[i].bestFiveCards) = sixHighRanks
                            /\ rankSet(best[j].bestFiveCards) = wheelRanks) =>
                               players[j].playerID \notin winnerIDs

RECURSIVE choose(_, _)
\* the binomial coefficient by Pascal's rule
choose(n, k) ==
    IF k < 0 \/ k > n THEN 0
    ELSE IF k = 0 \/ k = n THEN 1
    ELSE choose(n - 1, k - 1) + choose(n - 1, k)

\* the k-element index sets of a list of n elements
indexSets(n, k) == {S \in SUBSET (1..n) : Cardinality(S) = k}

\* the indices of S in increasing order
ascending(S) ==
    [j \in 1..Cardinality(S) |->
        CHOOSE i \in S : Cardinality({x \in S : x < i}) = j - 1]

\* index set S comes before index set T in the lexicographic order of
\* their increasing index tuples
lexBefore(S, T) ==
    LET s == ascending(S)
        t == ascending(T)
        d == {j \in DOMAIN s : s[j] # t[j]}
    IN  d # {} /\ LET j == CHOOSE j \in d : \A x \in d : j <= x IN s[j] < t[j]

\* the index set listed at position m of the lexicographic order
indexSetAt(n, k, m) ==
    CHOOSE S \in indexSets(n, k) :
        Cardinality({T \in indexSets(n, k) : lexBefore(T, S)}) = m - 1

\* C18: getCombinations(cards, k) over n elements returns exactly C(n,k)
\* combinations (none when k > n), each of the k elements at strictly
\* increasing original indices, no index set twice, in lexicographic order
\* of the index tuples, and leaves the input list as it was.
C18_Combinations ==
    (result.status = "ok" /\ "combinations" \in DOMAIN result) =>
        LET n == Len(cards)
            k == result.size
            combinations == result.combinations
        IN  /\ Len(combinations) = choose(n, k)
            /\ k > n => combinations = << >>
            /\ \A m \in DOMAIN combinations :
                   LET t == ascending(indexSetAt(n, k, m)) IN
                   combinations[m] = [j \in 1..k |-> cards[t[j]]]

\* the ten pairs out of five listed cards were returned
C18_Witness ==
    /\ result.status = "ok"
    /\ "combinations" \in DOMAIN result
    /\ Len(cards) = 5
    /\ result.size = 2
    /\ Len(result.combinations) = 10
    /\ result.combinations[1] = << cards[1], cards[2] >>
    /\ result.combinations[10] = << cards[4], cards[5] >>

shortLevel(cs) ==
    IF ranksWithCount(cs, 4) # {} THEN 3
    ELSE IF ranksWithCount(cs, 3) # {} THEN 7
    ELSE IF ranksWithCount(cs, 2) # {} THEN 9
    ELSE 10

\* C20: for every list of 2 to 4 distinct valid cards the category is the
\* first that applies of Four of a Kind (a rank with count 4), Three of a
\* Kind (count 3), One Pair (any rank with count 2), High Card; Royal
\* Flush, Straight Flush, Full House, Flush, Straight and Two Pair are
\* never produced (two pairs among four cards yield One Pair), and
\* bestFiveCards is all input cards sorted rank-descending.
C20_ShortHands ==
    (called /\ Len(cards) >= 2 /\ Len(cards) < HAND_SIZE
        /\ allValid(cards) /\ allDistinct(cards)) =>
        /\ result.status = "ok"
        /\ result.handRankLevel = shortLevel(cards)
        /\ result.handRankTitle = ruleTitle[shortLevel(cards)]
        /\ result.handRankTitle \in
               {"Four of a Kind", "Three of a Kind", "One Pair", "High Card"}
        /\ Len(result.bestFiveCards) = Len(cards)
        /\ Range(result.bestFiveCards) = Range(cards)
        /\ \A i \in 1..(Len(cards) - 1) :
               result.bestFiveCards[i].rank >= result.bestFiveCards[i + 1].rank

\* four cards making two pairs, listed low pair first, came back as One
\* Pair with the high pair first
C20_Witness ==
    /\ result.status = "ok"
    /\ Len(cards) = 4
    /\ Cardinality(ranksWithCount(cards, 2)) = 2
    /\ cards[1].rank < cards[4].rank
    /\ result.handRankTitle = "One Pair"
    /\ result.bestFiveCards[1].rank > result.bestFiveCards[4].rank

\* C21: the failure 'Failed to evaluate any valid hand combination' is
\* unreachable: for every input of 5 to 10 distinct valid cards every
\* 5-card subset classifies without error (the catch of the loop is never
\* entered) and the fold ends with a best hand.
C21_NoValidHandUnreachable ==
    (called /\ Len(cards) >= HAND_SIZE /\ Len(cards) <= MAX_CARDS
        /\ allValid(cards) /\ allDistinct(cards)) =>
        /\ \A S \in fiveIndexSets(Len(cards)) :
               evaluateHandRank(subHand(cards, S)).status = "ok"
        /\ result # Thrown("Failed to evaluate any valid hand combination")
        /\ result.status = "ok"
        /\ Len(result.bestFiveCards) = HAND_SIZE

\* nine cards, both aces among them, were passed and all their 126
\* five-card subsets were folded into a hand
C21_Witness ==
    /\ result.status = "ok"
    /\ Len(cards) = 9
    /\ Card(14, 1) \in Range(cards)
    /\ Card(14, 2) \in Range(cards)
    /\ Cardinality(fiveIndexSets(Len(cards))) = 126
    /\ result.handRankLevel = 2

\* C22: no operation mutates its input: across a call of
\* getBestHandCombination(cards) the cards array keeps its elements in
\* their order, and across a call of evaluateWinners(players) the players
\* array and every player's allCards keep theirs, whether the call returns
\* or raises.
C22_InputsUntouched ==
    [][(~called /\ called') => (cards' = cards /\ players' = players)]_vars

\* two players were evaluated, the winner's best cards came back in rank
\* order, and its allCards, listed lowest card first, is as it was passed
C22_Witness ==
    /\ result.status = "ok"
    /\ "winners" \in DOMAIN result
    /\ Len(players) = 2
    /\ result.winCount = 1
    /\ \E i \in DOMAIN players :
           /\ players[i].playerID = result.winners[1].playerID
           /\ players[i].allCards = << Card(7, 1), Card(9, 3), Card(9, 2) >>
           /\ result.winners[1].bestCombineCards = << Card(9, 3), Card(9, 2), Card(7, 1) >>
           /\ result.winners[1].allCards = players[i].allCards

minOf(a, b) == IF a < b THEN a ELSE b

\* C23: for every non-erroring input of n >= 2 cards bestFiveCards holds
\* exactly min(n, 5) cards, each of them one of the input cards and none
\* used twice, in non-increasing rank order, and classifying those cards
\* alone gives the handRankTitle and handRankLevel of the result.
C23_BestFiveCards ==
    (result.status = "ok" /\ Len(cards) >= 2) =>
        \A best \in {result.bestFiveCards} :
            /\ Len(best) = minOf(Len(cards), HAND_SIZE)
            /\ Range(best) \subseteq Range(cards)
            /\ allDistinct(best)
            /\ \A i \in 1..(Len(best) - 1) : best[i].rank >= best[i + 1].rank
            /\ \A again \in {getBestHandCombination(best)} :
                   /\ again.status = "ok"
                   /\ again.handRankTitle = result.handRankTitle
                   /\ again.handRankLevel = result.handRankLevel

\* of eight cards a straight came back that is made with the last card
\* passed and without the two aces among them
C23_Witness ==
    /\ result.status = "ok"
    /\ Len(cards) = 8
    /\ result.handRankLevel = 6
    /\ cards[8] \in Range(result.bestFiveCards)
    /\ Cardinality({i \in DOMAIN cards : cards[i].rank = 14}) = 2
    /\ 14 \notin rankSet(result.bestFiveCards)
    /\ evaluateHandRank(result.bestFiveCards).handRankTitle = "Straight"

\* C24: compareHandValues depends only on which cards each hand holds, not
\* on their listing order: for non-empty hands a and b of valid cards and
\* all reorderings a2 of a and b2 of b it returns for a2 and b2 what it
\* returns for a and b.
C24_OrderOfListing ==
    (result.status = "ok" /\ Len(hands) >= 2
        /\ allValid(hands[1]) /\ allValid(hands[2])
        /\ allDistinct(hands[1]) /\ allDistinct(hands[2])) =>
        \A a2 \in orderings(Range(hands[1])) : \A b2 \in orderings(Range(hands[2])) :
            compareHandValues(a2, b2) = result.value

\* C25: for every non-empty player list in which each allCards is a list
\* of 0 to 10 distinct valid cards evaluateWinners returns a WinnerResult
\* and raises no error, also when players hold no cards.
C25_ProperPlayersNoError ==
    (called /\ Len(players) > 0
        /\ \A i \in DOMAIN players :
               /\ Len(players[i].allCards) <= MAX_CARDS
               /\ allValid(players[i].allCards)
               /\ allDistinct(players[i].allCards)) =>
        /\ result.status = "ok"
        /\ result.winCount = Len(result.winners)

\* the list without its last card
butLast(cs) == SubSeq(cs, 1, Len(cs) - 1)

\* C26: adding a card never weakens the best hand: for a list C of 1 to 9
\* distinct valid cards and a valid card x not in C the handRankLevel for
\* C with x appended is at most the handRankLevel for C, also from 4 to 5
\* cards, where the short classification gives way to the rule table.
C26_MoreCardsNeverWeaker ==
    (called /\ Len(cards) >= 2 /\ Len(cards) <= MAX_CARDS
        /\ allValid(cards) /\ allDistinct(cards)) =>
        \A before \in {getBestHandCombination(butLast(cards))} :
            /\ before.status = "ok"
            /\ result.status = "ok"
            /\ result.handRankLevel <= before.handRankLevel

\* four cards making two pairs, One Pair as a short hand, became Two Pair
\* with the fifth card
C26_Witness ==
    /\ result.status = "ok"
    /\ Len(cards) = HAND_SIZE
    /\ result.handRankLevel = 8
    /\ Cardinality(ranksWithCount(butLast(cards), 2)) = 2
    /\ getBestHandCombination(butLast(cards)).handRankLevel = 9

\* the players list in the order q
reseated(q) == [k \in DOMAIN players |-> players[q[k]]]

\* C27: the set of winning playerIDs does not depend on the order of the
\* players list: for every non-erroring player list, the players holding
\* 1 to 10 cards each, and every permutation of it the two calls return
\* the same set of winner IDs and the same winCount.
C27_OrderOfPlayers ==
    (result.status = "ok" /\ "winners" \in DOMAIN result
        /\ \A i \in DOMAIN players : Len(players[i].allCards) \in 1..MAX_CARDS) =>
        \A q \in Permutations1(Len(players)) :
            \A other \in evaluateWinners(reseated(q)) :
                /\ other.status = "ok"
                /\ {other.winners[k].playerID : k \in DOMAIN other.winners} = winnerIDs
                /\ other.winCount = result.winCount

====
